---- MODULE Spec2Model ----
(***************************************************************************)
(* Amundsen Sea Low index: the detection of pressure minima per time step  *)
(* (get_lows), the selection of the ASL per time (define_minima_per_time_  *)
(* in_region) and the ASLICalculator that runs them over a stack of        *)
(* pressure fields with joblib workers (src/src/asli/asli.py).             *)
(*                                                                         *)
(* Numbers.  Pressures are whole hPa offsets (small naturals), a mean is   *)
(* kept exact as a fraction [num, den] with den = 0 standing for NaN, the  *)
(* land-sea mask is kept in tenths (0 .. 10, so MASK_THRESHOLD 0.5 is 5),  *)
(* and coordinates are whole degrees.  A time stamp is <<date, hour>>; its *)
(* string cut to 10 characters is the date.                                *)
(***************************************************************************)
EXTENDS Integers, Sequences, FiniteSets, TLC

\* ------------------------------------------------------------------ bounds
MaxPres == 3
MaxLowCells == 2
MaxLandCells == 1
MaxRows == 3
MaxT == 2
MaxJobs == 2
MaxVars == 2
MaxYears == 1
MaxBorder == 1

\* --------------------------------------------------------------- params.py
West == 170
East == 298
South == -80
North == -60
ASL_REGION == [west |-> West, east |-> East, south |-> South, north |-> North]
MASK_THRESHOLD == 5
Border == 8
MinDistance == 5
NumPeaks == 3
HPa == 100
DefaultStartYear == 2006
DefaultCliStartYear == 1979

None == [none |-> TRUE]
NaN == [num |-> 0, den |-> 0]

\* ------------------------------------------------------------- arithmetic
Abs(x) == IF x < 0 THEN -x ELSE x

\* a 2-D field is a sequence of rows; At is its value at cell <<row, column>>
At(f, c) == f[c[1]][c[2]]

\* the field f as an array of values held in memory
Array(f) == [i \in DOMAIN f |-> f[i] \o <<>>] \o <<>>

\* the sum of f over the cells S: every value times the cells that hold it
RECURSIVE SumValues(_, _, _)
SumValues(V, S, f) ==
    IF V = {} THEN 0
    ELSE LET v == CHOOSE w \in V : TRUE
         IN  v * Cardinality({x \in S : At(f, x) = v}) + SumValues(V \ {v}, S, f)

SumOver(S, f) == SumValues({At(f, x) : x \in S}, S, f)

MaxOver(S, f) ==
    LET V == {At(f, x) : x \in S}
    IN  CHOOSE v \in V : \A w \in V : w <= v

\* integer v compared with the fraction q; every comparison with NaN is false
IntGt(v, q) == q.den > 0 /\ v * q.den > q.num
IntLe(v, q) == q.den > 0 /\ v * q.den <= q.num
Neg(q) == [num |-> -q.num, den |-> q.den]
\* v - q
IntMinus(v, q) == [num |-> v * q.den - q.num, den |-> q.den]

\* -------------------------------------------------------------- the grids
\* The data grid: latitudes north to south, longitudes west to east.  The
\* first and last longitude lie outside the detection sector.
RawLats == <<-60, -70>>
RawLons == <<150, 162, 170, 171, 190, 210, 230, 250, 270, 290, 310>>

Shape(da) == (1 .. Len(da.lats)) \X (1 .. Len(da.lons))
LabelOf(da, c) == <<da.lats[c[1]], da.lons[c[2]]>>

\* DataArray.sel(latitude=slice(n, s), longitude=slice(w, e)): label slices
\* keep both end points
SelIdx(coords, lo, hi) == {i \in 1 .. Len(coords) : lo <= coords[i] /\ coords[i] <= hi}

RECURSIVE Pick(_, _, _)
Pick(coords, keep, i) ==
    IF i > Len(coords) THEN <<>>
    ELSE (IF i \in keep THEN <<coords[i]>> ELSE <<>>) \o Pick(coords, keep, i + 1)

\* position in the kept sub-sequence |-> position in coords
RECURSIVE PickIdx(_, _, _)
PickIdx(n, keep, i) ==
    IF i > n THEN <<>>
    ELSE (IF i \in keep THEN <<i>> ELSE <<>>) \o PickIdx(n, keep, i + 1)

\* the mask at a coordinate label <<lat, lon>>
IndexOf(coords, v) == CHOOSE i \in 1 .. Len(coords) : coords[i] = v
MaskAt(mask, lab) == mask.vals[IndexOf(mask.lats, lab[1])][IndexOf(mask.lons, lab[2])]

\* the land cells of a 2-D field, looked up in the mask by coordinate label
IsOcean(mask, lab) == MaskAt(mask, lab) < MASK_THRESHOLD

\* the cells of da that hold a number: a field may name, as isnull, the cells
\* that hold NaN instead
Finite(da) == IF "isnull" \in DOMAIN da THEN Shape(da) \ da.isnull ELSE Shape(da)

\* asl_sector_mean over the land cells as well
asl_sector_mean_unmasked(da, mask, asl_region) ==
    LET rows == SelIdx(da.lats, asl_region.south, asl_region.north)
        cols == SelIdx(da.lons, asl_region.west, asl_region.east)
        kept == (rows \X cols) \cap Finite(da)
    IN  [num |-> SumOver(kept, da.vals), den |-> Cardinality(kept)]

\* where() turns the land into NaN and mean() skips every NaN; the mean of
\* no value at all is NaN
asl_sector_mean(da, mask, asl_region) ==
    LET rows == SelIdx(da.lats, asl_region.south, asl_region.north)
        cols == SelIdx(da.lons, asl_region.west, asl_region.east)
        kept == {c \in (rows \X cols) \cap Finite(da) : IsOcean(mask, LabelOf(da, c))}
    IN  [num |-> SumOver(kept, da.vals), den |-> Cardinality(kept)]

\* ---------------------------------------------- skimage peak_local_max
Cheb(a, b) ==
    LET dr == Abs(a[1] - b[1])
        dc == Abs(a[2] - b[2])
    IN  IF dr > dc THEN dr ELSE dc

\* b is in the (2d+1)-square around a
Near(a, b, d) ==
    a[1] - b[1] <= d /\ b[1] - a[1] <= d /\ a[2] - b[2] <= d /\ b[2] - a[2] <= d

\* PeakMask with the threshold left out
PeakMaskNoThreshold(cells, img, d, thr) ==
    IF Cardinality(cells) = 1 THEN cells
    ELSE LET out == {c \in cells : \A x \in cells : At(img, x) <= At(img, c) \/ ~Near(x, c, d)}
         IN  IF out = cells THEN {} ELSE out

\* _get_peak_mask: a cell equal to the maximum of its (2d+1)-square and above
\* the threshold; an image all of whose cells are their own local maximum is
\* trivial and has no peak
PeakMask(cells, img, d, thr) ==
    IF Cardinality(cells) = 1 THEN {c \in cells : IntGt(At(img, c), thr)}
    ELSE LET out == {c \in cells : \A x \in cells : At(img, x) <= At(img, c) \/ ~Near(x, c, d)}
         IN  IF out = cells THEN {}
             ELSE {c \in out : IntGt(At(img, c), thr)}

\* _exclude_border: with exclude_border the cells nearer than min_distance
\* to an edge are dropped
ExcludeBorder(cells, peaks, w) ==
    LET nr == Cardinality({c[1] : c \in cells})
        nc == Cardinality({c[2] : c \in cells})
    IN  {c \in peaks : c[1] > w /\ c[1] <= nr - w /\ c[2] > w /\ c[2] <= nc - w}

\* argsort(-intensities, kind="stable") over np.nonzero's row-major order
Before(img, a, b) ==
    \/ At(img, a) > At(img, b)
    \/ At(img, a) = At(img, b) /\ (a[1] < b[1] \/ (a[1] = b[1] /\ a[2] <= b[2]))

\* SortPeaks with the least intensity first
RECURSIVE SortPeaksAscending(_, _)
SortPeaksAscending(S, img) ==
    IF S = {} THEN <<>>
    ELSE LET b == CHOOSE x \in S : \A y \in S : Before(img, y, x)
         IN  <<b>> \o SortPeaksAscending(S \ {b}, img)

RECURSIVE SortPeaks(_, _)
SortPeaks(S, img) ==
    IF S = {} THEN <<>>
    ELSE LET b == CHOOSE x \in S : \A y \in S : Before(img, x, y)
         IN  <<b>> \o SortPeaks(S \ {b}, img)

\* EnsureSpacing that never stops at max_out
RECURSIVE EnsureSpacingNoCap(_, _, _, _)
EnsureSpacingNoCap(coord, kept, spacing, max_out) ==
    IF coord = <<>> THEN kept
    ELSE LET c == Head(coord)
             close == \E i \in 1 .. Len(kept) : Cheb(kept[i], c) < spacing
         IN  EnsureSpacingNoCap(Tail(coord), IF close THEN kept ELSE Append(kept, c),
                                spacing, max_out)

\* ensure_spacing: in that order a point is kept unless a kept one is nearer
\* than spacing (strictly); it stops at max_out kept points
RECURSIVE EnsureSpacing(_, _, _, _)
EnsureSpacing(coord, kept, spacing, max_out) ==
    IF coord = <<>> \/ Len(kept) >= max_out THEN kept
    ELSE LET c == Head(coord)
             close == \E i \in 1 .. Len(kept) : Cheb(kept[i], c) < spacing
         IN  EnsureSpacing(Tail(coord), IF close THEN kept ELSE Append(kept, c),
                           spacing, max_out)

\* peak_local_max that drops the cells near an edge whatever exclude_border is
peak_local_max_inner(cells, img, min_distance, num_peaks, exclude_border, threshold_abs) ==
    LET mask == PeakMask(cells, img, min_distance, threshold_abs)
        inner == ExcludeBorder(cells, mask, min_distance)
    IN  EnsureSpacing(SortPeaks(inner, img), <<>>, min_distance, num_peaks)

peak_local_max(cells, img, min_distance, num_peaks, exclude_border, threshold_abs) ==
    LET mask == PeakMask(cells, img, min_distance, threshold_abs)
        inner == IF exclude_border THEN ExcludeBorder(cells, mask, min_distance) ELSE mask
    IN  EnsureSpacing(SortPeaks(inner, img), <<>>, min_distance, num_peaks)

\* ---------------------------------------------------------------- get_lows
\* time_str cut one character short: the last digit of the day is lost
time_str_short(da) == da.time[1] \div 10

\* str(da.time.values)[:10]: the date of the stamp <<date, hour>>
time_str(da) == da.time[1]

\* FillLand with the land left as it is
FillLandKeep(da, mask) == da.vals

\* da.where(mask < MASK_THRESHOLD).fillna(da.max()): max() skips NaN, and
\* fillna fills the cells that held NaN before as well as the land
FillLand(da, mask) ==
    LET finite == Finite(da)
        da_max == MaxOver(finite, da.vals)
    IN  Array([i \in 1 .. Len(da.lats) |-> [j \in 1 .. Len(da.lons) |->
            IF <<i, j>> \in finite /\ IsOcean(mask, <<da.lats[i], da.lons[j]>>)
            THEN da.vals[i][j] ELSE da_max]])

\* LowRows with the pressure read back from the inverted field
RECURSIVE LowRowsInverted(_, _, _, _)
LowRowsInverted(minima_yx, da, filled, sector_mean_pres) ==
    IF minima_yx = <<>> THEN <<>>
    ELSE LET m == Head(minima_yx)
         IN  <<[time |-> time_str(da),
                lon |-> da.lons[m[2]],
                lat |-> da.lats[m[1]],
                ActCenPres |-> -At(filled, m),
                SectorPres |-> sector_mean_pres,
                RelCenPres |-> IntMinus(-At(filled, m), sector_mean_pres)]>>
             \o LowRowsInverted(Tail(minima_yx), da, filled, sector_mean_pres)

RECURSIVE LowRows(_, _, _, _)
LowRows(minima_yx, da, filled, sector_mean_pres) ==
    IF minima_yx = <<>> THEN <<>>
    ELSE LET m == Head(minima_yx)
         IN  <<[time |-> time_str(da),
                lon |-> da.lons[m[2]],
                lat |-> da.lats[m[1]],
                ActCenPres |-> At(filled, m),
                SectorPres |-> sector_mean_pres,
                RelCenPres |-> IntMinus(At(filled, m), sector_mean_pres)]>>
             \o LowRows(Tail(minima_yx), da, filled, sector_mean_pres)

\* get_lows that takes every cell for open sea
get_lows_unmasked(da, mask) ==
    LET sector_mean_pres == asl_sector_mean_unmasked(da, mask, ASL_REGION)
        filled == da.vals
        invert_data ==
            Array([i \in 1 .. Len(da.lats) |-> [j \in 1 .. Len(da.lons) |-> -filled[i][j]]])
        minima_yx == peak_local_max(Shape(da), invert_data, MinDistance, NumPeaks,
                                    FALSE, Neg(sector_mean_pres))
    IN  IF Finite(da) = {} THEN <<>>
        ELSE LowRows(minima_yx, da, filled, sector_mean_pres)

get_lows(da, mask) ==
    LET sector_mean_pres == asl_sector_mean(da, mask, ASL_REGION)
        threshold == sector_mean_pres
        filled == FillLand(da, mask)
        invert_data ==
            Array([i \in 1 .. Len(da.lats) |-> [j \in 1 .. Len(da.lons) |-> -filled[i][j]]])
        threshold_abs ==
            IF threshold = None
            THEN [num |-> SumOver(Shape(da), invert_data), den |-> Cardinality(Shape(da))]
            ELSE Neg(threshold)
        minima_yx == peak_local_max(Shape(da), invert_data, MinDistance, NumPeaks,
                                    FALSE, threshold_abs)
    IN  \* a field of NaN alone: da.max() is NaN, fillna fills nothing, and no
        \* cell of the image equals its neighbourhood maximum or is above the
        \* threshold, so peak_local_max returns no coordinate
        IF Finite(da) = {} THEN <<>>
        ELSE LowRows(minima_yx, da, filled, sector_mean_pres)

\* ------------------------------------------ define_minima_per_time_in_region
\* InBox with the west edge let in
InBoxClosedWest(row, region) ==
    /\ row.lon >= region.west
    /\ row.lon < region.east
    /\ row.lat > region.south
    /\ row.lat < region.north

InBox(row, region) ==
    /\ row.lon > region.west
    /\ row.lon < region.east
    /\ row.lat > region.south
    /\ row.lat < region.north

\* IdxMin taking the last of the rows that share the least ActCenPres
IdxMinLast(df, t) ==
    CHOOSE i \in 1 .. Len(df) :
        /\ df[i].time = t
        /\ \A j \in 1 .. Len(df) :
              df[j].time = t =>
                 \/ df[i].ActCenPres < df[j].ActCenPres
                 \/ df[i].ActCenPres = df[j].ActCenPres /\ i >= j

\* idxmin of a group: the first row of the group with the least ActCenPres
IdxMin(df, t) ==
    CHOOSE i \in 1 .. Len(df) :
        /\ df[i].time = t
        /\ \A j \in 1 .. Len(df) :
              df[j].time = t =>
                 \/ df[i].ActCenPres < df[j].ActCenPres
                 \/ df[i].ActCenPres = df[j].ActCenPres /\ i <= j

\* groupby("time") walks its keys in ascending order
RECURSIVE ByTime(_, _)
ByTime(df, keys) ==
    IF keys = {} THEN <<>>
    ELSE LET t == CHOOSE k \in keys : \A k2 \in keys : k <= k2
         IN  <<df[IdxMin(df, t)]>> \o ByTime(df, keys \ {t})

\* define_minima_per_time_in_region with the minimum taken before the box
\* filter: the deepest candidate of each time, kept only if it is in the box
define_minima_min_first(df, region) ==
    SelectSeq(ByTime(df, {df[i].time : i \in 1 .. Len(df)}), LAMBDA r : InBox(r, region))

define_minima_per_time_in_region(df, region) ==
    LET df2 == SelectSeq(df, LAMBDA r : InBox(r, region))
    IN  ByTime(df2, {df2[i].time : i \in 1 .. Len(df2)})

\* ------------------------------------------------------------ slice_region
\* da.sel(latitude=slice(north + border, south - border),
\*        longitude=slice(west - border, east + border)) of one 2-D field
slice_region(da, region, border) ==
    LET rows == SelIdx(da.lats, region.south - border, region.north + border)
        cols == SelIdx(da.lons, region.west - border, region.east + border)
        ri == PickIdx(Len(da.lats), rows, 1)
        ci == PickIdx(Len(da.lons), cols, 1)
    IN  [lats |-> Pick(da.lats, rows, 1),
         lons |-> Pick(da.lons, cols, 1),
         vals |-> [i \in 1 .. Len(ri) |-> [j \in 1 .. Len(ci) |-> da.vals[ri[i]][ci[j]]]]]

\* a stack is [time, lats, lons, vals] with one 2-D field per time step
Plane(stack, t) == [lats |-> stack.lats, lons |-> stack.lons, vals |-> stack.vals[t]]

\* slice_region(raw_msl_data) / 100.0, every time step alike
SlicedHPa(raw) ==
    LET s1 == slice_region(Plane(raw, 1), ASL_REGION, Border)
    IN  [time |-> raw.time,
         lats |-> s1.lats,
         lons |-> s1.lons,
         vals |-> [t \in 1 .. Len(raw.time) |->
                     LET st == slice_region(Plane(raw, t), ASL_REGION, Border)
                     IN  [i \in 1 .. Len(st.lats) |-> [j \in 1 .. Len(st.lons) |->
                             st.vals[i][j] \div HPa]]]]

\* raw_msl_data.where(land_sea_mask < MASK_THRESHOLD)
Masked(raw, mask) ==
    [raw EXCEPT !.vals =
        [t \in 1 .. Len(raw.time) |->
            [i \in 1 .. Len(raw.lats) |-> [j \in 1 .. Len(raw.lons) |->
                IF IsOcean(mask, <<raw.lats[i], raw.lons[j]>>) THEN raw.vals[t][i][j] ELSE NaN]]]]

SlicedMasked(masked) ==
    LET s1 == slice_region(Plane(masked, 1), ASL_REGION, Border)
    IN  [time |-> masked.time,
         lats |-> s1.lats,
         lons |-> s1.lons,
         vals |-> [t \in 1 .. Len(masked.time) |->
                     slice_region(Plane(masked, t), ASL_REGION, Border).vals]]

\* da.isel(time=t): the t-th field with its own time stamp
isel(da, t) == [time |-> da.time[t], lats |-> da.lats, lons |-> da.lons, vals |-> da.vals[t]]

\* _get_lows_by_time that looks at the first field whatever t is
_get_lows_first_time(da, slice_by, t, mask) == get_lows(isel(da, 1), mask)

_get_lows_by_time(da, slice_by, t, mask) == get_lows(isel(da, t), mask)

\* pd.concat(frames, ignore_index=True) of the frames 1 .. n in that order
RECURSIVE Concat(_, _)
Concat(frames, n) == IF n = 0 THEN <<>> ELSE Concat(frames, n - 1) \o frames[n]

\* ------------------------------------------------------------- the inputs
RawCells == (1 .. Len(RawLats)) \X (1 .. Len(RawLons))
PBase == 2
Pres == 0 .. MaxPres

\* the cells whose pressure or mask the inputs vary: outside the sector,
\* outside the box, on its west edge, just inside it, on its north edge,
\* and inside it six columns further east
CellOutSector == <<2, 1>>
CellOutBox == <<2, 2>>
CellWestEdge == <<2, 3>>
CellInA == <<2, 4>>
CellNorthEdge == <<1, 6>>
CellInB == <<2, 10>>
ProbeCells == {CellOutBox, CellWestEdge, CellInA, CellNorthEdge, CellInB}
LandCells == {CellWestEdge, CellInA, CellInB}

\* a field in Pa: PBase hPa everywhere but at the cells of p
FieldPa(p) ==
    [i \in 1 .. Len(RawLats) |-> [j \in 1 .. Len(RawLons) |->
        HPa * (IF <<i, j>> \in DOMAIN p THEN p[<<i, j>>] ELSE PBase)]]

PartialFields(cells, k) ==
    UNION {[S -> Pres \ {PBase}] : S \in {T \in SUBSET cells : Cardinality(T) <= k}}

\* a mask on the data grid, in tenths: v[c] at cell c
MaskOf(v) ==
    [lats |-> RawLats,
     lons |-> RawLons,
     vals |-> [i \in 1 .. Len(RawLats) |-> [j \in 1 .. Len(RawLons) |-> v[<<i, j>>]]]]

\* land (exactly MASK_THRESHOLD) at the cells of L, open sea elsewhere
LandAt(L) == MaskOf([c \in RawCells |-> IF c \in L THEN MASK_THRESHOLD ELSE 0])
AllLand == MaskOf([c \in RawCells |-> 2 * MASK_THRESHOLD])
AllCoast == MaskOf([c \in RawCells |-> MASK_THRESHOLD - 1])
\* land over the whole ASL box, open sea west and east of it
BoxLand ==
    MaskOf([c \in RawCells |->
               IF West <= RawLons[c[2]] /\ RawLons[c[2]] <= East THEN 2 * MASK_THRESHOLD ELSE 0])

Stamps == {<<1, 0>>, <<1, 12>>, <<2, 0>>}
TimeAxes == {ax \in UNION {[1 .. n -> Stamps] : n \in 1 .. MaxT} :
                \A i, j \in DOMAIN ax : i /= j => ax[i] /= ax[j]}

RawStack(ax, fields) == [time |-> ax, lats |-> RawLats, lons |-> RawLons, vals |-> fields]

\* the masks and the fields of the calculator runs: no low, a low just inside
\* the west edge of the box, one as deep further east in the box together
\* with a deeper one outside the detection sector
Masks == {LandAt({}), LandAt({CellInA}), AllLand}
StackFields ==
    {FieldPa(p) : p \in {[c \in {} |-> PBase],
                         [c \in {CellInA} |-> PBase - 1],
                         [c \in {CellInB, CellOutSector} |->
                             IF c = CellInB THEN PBase - 1 ELSE PBase - 2]}}
RawStacks == UNION {{RawStack(ax, f) : f \in [DOMAIN ax -> StackFields]} : ax \in TimeAxes}

\* the inputs of get_lows alone: the sliced field of a one-step stack with at
\* most MaxLowCells cells off the base pressure, land at up to MaxLandCells
\* cells, everywhere or nowhere
LowsMasks == {LandAt(L) : L \in {T \in SUBSET LandCells : Cardinality(T) <= MaxLandCells}}
                \cup {AllLand, AllCoast, BoxLand}
LowsDa(p) == isel(SlicedHPa(RawStack(<<<<1, 0>>>>, <<FieldPa(p)>>)), 1)

\* a finer field for get_lows: one row of open sea inside the sector, wide
\* enough for four lows six columns apart, in hPa: PBase everywhere but at
\* the cells of p, which are the first two columns and every sixth after
WideLats == <<-70>>
WideLons == <<172, 178, 184, 190, 196, 202, 208, 214, 220, 226,
              232, 238, 244, 250, 256, 262, 268, 274, 280>>
WideCells == {<<1, 1>>, <<1, 2>>, <<1, 7>>, <<1, 13>>, <<1, 19>>}
WideDa(p) ==
    [time |-> <<1, 0>>,
     lats |-> WideLats,
     lons |-> WideLons,
     vals |-> Array([i \in 1 .. Len(WideLats) |-> [j \in 1 .. Len(WideLons) |->
                 IF <<i, j>> \in DOMAIN p THEN p[<<i, j>>] ELSE PBase]])]
\* the same grid with NaN in every cell
NonFiniteDa ==
    [time |-> <<1, 0>>,
     lats |-> WideLats,
     lons |-> WideLons,
     vals |-> Array([i \in 1 .. Len(WideLats) |-> [j \in 1 .. Len(WideLons) |-> NaN]]),
     isnull |-> (1 .. Len(WideLats)) \X (1 .. Len(WideLons))]
WideSea ==
    [lats |-> WideLats,
     lons |-> WideLons,
     vals |-> Array([i \in 1 .. Len(WideLats) |-> [j \in 1 .. Len(WideLons) |-> 0]])]

\* the inputs of the selection alone: tables of up to MaxRows candidates at
\* points on, just inside and outside the edges of the box
SelPoints ==
    {<<West, -70>>, <<West + 1, -70>>, <<East, -70>>, <<East - 1, North - 1>>,
     <<210, North>>, <<210, South>>, <<West - Border, -70>>}
SelRows ==
    {[time |-> t, lon |-> p[1], lat |-> p[2], ActCenPres |-> a,
      SectorPres |-> [num |-> PBase, den |-> 1],
      RelCenPres |-> IntMinus(a, [num |-> PBase, den |-> 1])] :
        t \in {1, 2}, p \in SelPoints, a \in {PBase - 1, PBase}}

\* ================================================================= data.py
\* A float or None is None or [deg |-> the number]; a dictionary is a record.
Truthy(d) == d /= None /\ d /= <<>>

\* _get_request_area with the border added to the west bound too
_get_request_area_shifted(area, border) ==
    IF Truthy(area)
    THEN IF border = None
         THEN area
         ELSE [north |-> area.north + border.deg,
               south |-> area.south - border.deg,
               east |-> area.east + border.deg,
               west |-> area.west + border.deg]
    ELSE None

_get_request_area(area, border) ==
    IF Truthy(area)
    THEN IF border = None
         THEN area
         ELSE [north |-> area.north + border.deg,
               south |-> area.south - border.deg,
               east |-> area.east + border.deg,
               west |-> area.west - border.deg]
    ELSE None

\* Path(data_dir, name), for a relative name: the parts of the path
Path(data_dir, name) == <<data_dir, name>>

\* CDSDownloader.__init__ with the area listed north, south, east, west
CDSDownloaderNSEW(data_dir, request_params, output_filename, area) ==
    [request_params |->
        IF Truthy(area)
        THEN [k \in DOMAIN request_params \cup {"area"} |->
                 IF k = "area" THEN <<area.north, area.south, area.east, area.west>>
                 ELSE request_params[k]]
        ELSE request_params,
     output_path |-> <<data_dir, output_filename>>]

\* CDSDownloader.__init__, the downloader as [request_params, output_path]
CDSDownloader(data_dir, request_params, output_filename, area) ==
    [request_params |->
        IF Truthy(area)
        THEN [k \in DOMAIN request_params \cup {"area"} |->
                 IF k = "area" THEN <<area.north, area.west, area.south, area.east>>
                 ELSE request_params[k]]
        ELSE request_params,
     output_path |-> Path(data_dir, output_filename)]

Dataset == "reanalysis-era5-single-levels-monthly-means"

\* CDSDownloader.download: the one call of retrieve it makes
download(d) == <<[name |-> Dataset, request |-> d.request_params, target |-> d.output_path]>>

\* str of an integer
Digit(d) ==
    CASE d = 0 -> "0" [] d = 1 -> "1" [] d = 2 -> "2" [] d = 3 -> "3" [] d = 4 -> "4"
      [] d = 5 -> "5" [] d = 6 -> "6" [] d = 7 -> "7" [] d = 8 -> "8" [] d = 9 -> "9"

RECURSIVE StrNat(_)
StrNat(n) == IF n < 10 THEN Digit(n) ELSE StrNat(n \div 10) \o Digit(n % 10)

Str(n) == IF n < 0 THEN "-" \o StrNat(-n) ELSE StrNat(n)

\* sep.join(xs)
RECURSIVE Join(_, _)
Join(xs, sep) ==
    IF xs = <<>> THEN ""
    ELSE IF Len(xs) = 1 THEN xs[1]
    ELSE xs[1] \o sep \o Join(Tail(xs), sep)

\* x in xs, for a list xs
In(x, xs) == \E i \in 1 .. Len(xs) : xs[i] = x

Months == <<"01", "02", "03", "04", "05", "06", "07", "08", "09", "10", "11", "12">>

\* the CDS name of a variable of vars, nothing for any other entry
CdsName(v) ==
    CASE v = "uas" -> <<"10m_u_component_of_wind">>
      [] v = "vas" -> <<"10m_v_component_of_wind">>
      [] v = "tas" -> <<"2m_temperature">>
      [] v = "msl" -> <<"mean_sea_level_pressure">>
      [] OTHER -> <<>>

RECURSIVE CdsNames(_)
CdsNames(vs) == IF vs = <<>> THEN <<>> ELSE CdsName(Head(vs)) \o CdsNames(Tail(vs))

\* get_era5_monthly with the variables requested in the order of vars
get_era5_monthly_in_order(data_dir, vs, start_year, end_year, area, border) ==
    LET variables == CdsNames(vs)
        request_params ==
            [format |-> "netcdf",
             product_type |-> "monthly_averaged_reanalysis",
             variable |-> variables,
             year |-> [i \in 1 .. (end_year + 1 - start_year) |-> Str(start_year + i - 1)],
             month |-> Months,
             time |-> "00:00"]
        output_filename ==
            "ERA5/monthly/era5_" \o Join(variables, "_") \o "_monthly_"
                \o Str(start_year) \o "-" \o Str(end_year) \o ".nc"
    IN  download(CDSDownloader(data_dir, request_params, output_filename,
                               _get_request_area(area, border)))

\* get_era5_monthly: the calls of retrieve it makes
get_era5_monthly(data_dir, vs, start_year, end_year, area, border) ==
    LET variables ==
            (IF In("uas", vs) THEN <<"10m_u_component_of_wind">> ELSE <<>>)
            \o (IF In("vas", vs) THEN <<"10m_v_component_of_wind">> ELSE <<>>)
            \o (IF In("tas", vs) THEN <<"2m_temperature">> ELSE <<>>)
            \o (IF In("msl", vs) THEN <<"mean_sea_level_pressure">> ELSE <<>>)
        request_params ==
            [format |-> "netcdf",
             product_type |-> "monthly_averaged_reanalysis",
             variable |-> variables,
             year |-> [i \in 1 .. (end_year + 1 - start_year) |-> Str(start_year + i - 1)],
             month |-> Months,
             time |-> "00:00"]
        output_filename ==
            "ERA5/monthly/era5_" \o Join(variables, "_") \o "_monthly_"
                \o Str(start_year) \o "-" \o Str(end_year) \o ".nc"
    IN  download(CDSDownloader(data_dir, request_params, output_filename,
                               _get_request_area(area, border)))

\* get_land_sea_mask: the calls of retrieve it makes
get_land_sea_mask(data_dir, filename, area, border) ==
    LET request_params ==
            [format |-> "netcdf",
             product_type |-> "monthly_averaged_reanalysis",
             variable |-> "land_sea_mask",
             year |-> "2023",
             month |-> "12",
             time |-> "00:00"]
    IN  download(CDSDownloader(data_dir, request_params, filename,
                               _get_request_area(area, border)))

\* An option of the command line is Absent, Bare (the flag without a value,
\* where nargs="?" allows it) or Given(its converted value).
Absent == [absent |-> TRUE]
Bare == [bare |-> TRUE]
Given(x) == [given |-> x]

\* argparse: the default of an absent option, None for a bare nargs="?" flag
OptionValue(opt, default) ==
    IF opt = Absent THEN default ELSE IF opt = Bare THEN None ELSE opt.given

\* parse_args over the options of _cli_data_common_args
_cli_data_common_args(argv) ==
    [datadir |-> OptionValue(argv.datadir, "./data"),
     e |-> argv.e,
     area |-> OptionValue(argv.area, <<ASL_REGION.north, ASL_REGION.west,
                                       ASL_REGION.south, ASL_REGION.east>>),
     border |-> OptionValue(argv.border, [deg |-> 0])]

\* _get_cli_lsm_args where -e leaves the border as given
_get_cli_lsm_args_keep_border(argv) ==
    LET common == _cli_data_common_args(argv)
        args == [k \in DOMAIN common \cup {"filename"} |->
                    IF k = "filename" THEN OptionValue(argv.filename, "era5_lsm.nc")
                    ELSE common[k]]
    IN  IF args.e = TRUE
        THEN [k \in DOMAIN args \cup {"area_dict"} |->
                 IF k = "area_dict" THEN None ELSE args[k]]
        ELSE [k \in DOMAIN args \cup {"area_dict"} |->
                 IF k = "area_dict"
                 THEN [north |-> args.area[1], west |-> args.area[2],
                       south |-> args.area[3], east |-> args.area[4]]
                 ELSE args[k]]

_get_cli_lsm_args(argv) ==
    LET common == _cli_data_common_args(argv)
        args == [k \in DOMAIN common \cup {"filename"} |->
                    IF k = "filename" THEN OptionValue(argv.filename, "era5_lsm.nc")
                    ELSE common[k]]
    IN  IF args.e = TRUE
        THEN [k \in DOMAIN args \cup {"area_dict"} |->
                 IF k \in {"area_dict", "border"} THEN None ELSE args[k]]
        ELSE [k \in DOMAIN args \cup {"area_dict"} |->
                 IF k = "area_dict"
                 THEN [north |-> args.area[1], west |-> args.area[2],
                       south |-> args.area[3], east |-> args.area[4]]
                 ELSE args[k]]

\* _cli_get_land_sea_mask: the calls of retrieve it makes
_cli_get_land_sea_mask(argv) ==
    LET args == _get_cli_lsm_args(argv)
    IN  get_land_sea_mask(args.datadir, args.filename, args.area_dict, args.border)

\* _cli_get_era5_monthly: [raised |-> the exception] or [retrieved |-> the
\* calls of retrieve it makes].  The Namespace has area, not area_bounds;
\* --vars is given as the pieces between its commas.
_cli_get_era5_monthly(argv, this_year) ==
    LET common == _cli_data_common_args(argv)
        vs == OptionValue(argv.vars, <<"msl", "">>)
        start == OptionValue(argv.start, DefaultCliStartYear)
        end == OptionValue(argv.end, this_year)
    IN  IF common.e = TRUE
        THEN IF argv.vars = Bare
             THEN [raised |-> "AttributeError"]
             ELSE [retrieved |-> get_era5_monthly(common.datadir, vs, start, end, None, None)]
        ELSE [raised |-> "AttributeError"]

\* ------------------------------------------------- the inputs of data.py
\* the region of the package, the four numbers of the test of the command
\* line (north 1, west 2, south 3, east 4: south is not below north) and a
\* region whose west and east are swapped
TestArea == [north |-> 1, west |-> 2, south |-> 3, east |-> 4]
SwappedArea == [north |-> North, west |-> East, south |-> South, east |-> West]
Areas == {ASL_REGION, TestArea, SwappedArea}
Borders == {[deg |-> b] : b \in 0 .. MaxBorder}
VarNames == {"msl", "tas", "uas", "vas", "sst"}
VarLists == UNION {[1 .. n -> VarNames] : n \in 0 .. MaxVars}
Years == DefaultStartYear .. DefaultStartYear + MaxYears
Filenames == {"era5_lsm.nc", "lsm.nc"}
AreaOptions == {Absent} \cup {Given(<<a.north, a.west, a.south, a.east>>) : a \in Areas}
BorderOptions == {Absent, Bare} \cup {Given(b) : b \in Borders}

\* ---------------------------------------------------------------- the state
VARIABLES
    land_sea_mask,      \* ASLICalculator.land_sea_mask
    raw_msl_data,       \* ASLICalculator.raw_msl_data (Pa)
    masked_msl_data,    \* ASLICalculator.masked_msl_data
    sliced_msl,         \* ASLICalculator.sliced_msl (hPa, detection sector)
    sliced_masked_msl,  \* ASLICalculator.sliced_masked_msl
    all_lows_dfs,       \* ASLICalculator.all_lows_dfs
    asl_df,             \* ASLICalculator.asl_df
    phase,              \* "idle", "running" (inside joblib.Parallel), "raised"
    n_jobs,             \* the workers of the running calculate
    pc,                 \* per task: "pending", "running", "done"
    lows_per_time,      \* per task: its returned frame
    completed,          \* the tasks in the order they completed
    arg,                \* a direct call's arguments
    ret,                \* a direct call's result
    log,                \* the distinct messages of logging.error so far
    main_pc,            \* where main() is: "off" when the calculator is used directly
    exit_status,        \* <<>> while main() runs, then <<the exit status of the process>>
    csv,                \* the table written by to_csv
    retrievals,         \* the calls of cdsapi.Client.retrieve
    batch_callback,     \* the global joblib.parallel.BatchCompletionCallBack
    old_batch_callback, \* tqdm_joblib's local of that name: <<>> or <<the class>>
    progress_bar,       \* the tqdm object of calculate: [total, n, closed]
    notified            \* what the completed batches called, in order

vars == <<land_sea_mask, raw_msl_data, masked_msl_data, sliced_msl, sliced_masked_msl,
          all_lows_dfs, asl_df, phase, n_jobs, pc, lows_per_time, completed, arg, ret,
          log, main_pc, exit_status, csv, retrievals,
          batch_callback, old_batch_callback, progress_bar, notified>>

data == <<land_sea_mask, raw_msl_data, masked_msl_data, sliced_msl, sliced_masked_msl>>
run == <<phase, n_jobs, pc, lows_per_time, completed>>
call == <<arg, ret>>
cli == <<main_pc, exit_status, csv>>
progress == <<batch_callback, old_batch_callback, progress_bar, notified>>

DF(rows) == [rows |-> rows]

\* the message read_msl_data logs when no mask is loaded
MaskFirst == "Must read in land-sea mask before mean sea level data."

\* ASLICalculator.__init__
Constructed ==
    /\ land_sea_mask = None
    /\ raw_msl_data = None
    /\ masked_msl_data = None
    /\ sliced_msl = None
    /\ sliced_masked_msl = None
    /\ all_lows_dfs = None
    /\ asl_df = None
    /\ phase = "idle"
    /\ n_jobs = 0
    /\ pc = <<>>
    /\ lows_per_time = <<>>
    /\ completed = <<>>
    /\ log = {}
    /\ retrievals = <<>>
    /\ batch_callback = "BatchCompletionCallBack"
    /\ old_batch_callback = <<>>
    /\ progress_bar = None
    /\ notified = <<>>

\* no main() is running
NoMain == main_pc = "off" /\ exit_status = <<>> /\ csv = None

Init == Constructed /\ NoMain /\ arg = None /\ ret = None

read_mask_data ==
    /\ phase = "idle"
    /\ land_sea_mask = None
    /\ \E m \in Masks : land_sea_mask' = m
    /\ UNCHANGED <<raw_msl_data, masked_msl_data, sliced_msl, sliced_masked_msl,
                   all_lows_dfs, asl_df, run, call, log, cli, retrievals, progress>>

\* read_msl_data that leaves an empty table behind when no mask is loaded
read_msl_data_resetting ==
    /\ phase = "idle"
    /\ sliced_msl = None
    /\ \/ /\ land_sea_mask = None
          /\ log' = log \cup {MaskFirst}
          /\ asl_df' = DF(<<>>)
          /\ UNCHANGED <<data, all_lows_dfs, run, call, cli, retrievals, progress>>
       \/ /\ land_sea_mask /= None
          /\ \E raw \in RawStacks :
                /\ raw_msl_data' = raw
                /\ masked_msl_data' = Masked(raw, land_sea_mask)
                /\ sliced_masked_msl' = SlicedMasked(Masked(raw, land_sea_mask))
                /\ sliced_msl' = SlicedHPa(raw)
          /\ UNCHANGED <<land_sea_mask, all_lows_dfs, asl_df, run, call, log, cli, retrievals, progress>>

read_msl_data ==
    /\ phase = "idle"
    /\ sliced_msl = None
    /\ \/ /\ land_sea_mask = None
          /\ log' = log \cup {MaskFirst}
          /\ UNCHANGED <<data, all_lows_dfs, asl_df, run, call, cli, retrievals, progress>>
       \/ /\ land_sea_mask /= None
          /\ \E raw \in RawStacks :
                /\ raw_msl_data' = raw
                /\ masked_msl_data' = Masked(raw, land_sea_mask)
                /\ sliced_masked_msl' = SlicedMasked(Masked(raw, land_sea_mask))
                /\ sliced_msl' = SlicedHPa(raw)
          /\ UNCHANGED <<land_sea_mask, all_lows_dfs, asl_df, run, call, log, cli, retrievals, progress>>

\* ------------------------------------------------- utils.py: tqdm_joblib
\* the tasks of one batch: joblib's default for tasks as slow as these
BatchSize == 1

\* tqdm(total=ntime)
tqdm(total) == [total |-> total, n |-> 0, closed |-> FALSE]

\* the with statement up to the yield: the global class is saved and replaced
TqdmEnter(tqdm_object) ==
    /\ old_batch_callback' = <<batch_callback>>
    /\ batch_callback' = "TqdmBatchCompletionCallback"
    /\ progress_bar' = tqdm_object
    /\ notified' = <<>>

\* a batch completes and joblib calls the class that is the global one:
\* the patched __call__ updates the bar, then calls the one it inherits
BatchCompleted ==
    /\ IF batch_callback = "TqdmBatchCompletionCallback"
       THEN /\ progress_bar' = [progress_bar EXCEPT !.n = @ + BatchSize]
            /\ notified' = notified \o <<"update", "__call__">>
       ELSE /\ notified' = Append(notified, "__call__")
            /\ UNCHANGED progress_bar
    /\ UNCHANGED <<batch_callback, old_batch_callback>>

\* TqdmLeave without try and finally: the lines after the yield are reached
\* only when the block ends without an exception
TqdmLeaveOnReturn ==
    IF phase' = "raised"
    THEN UNCHANGED progress
    ELSE /\ batch_callback' = old_batch_callback[1]
         /\ progress_bar' = [progress_bar EXCEPT !.closed = TRUE]
         /\ UNCHANGED <<old_batch_callback, notified>>

\* the finally clause, run however the block is left
TqdmLeave ==
    /\ batch_callback' = old_batch_callback[1]
    /\ progress_bar' = [progress_bar EXCEPT !.closed = TRUE]
    /\ UNCHANGED <<old_batch_callback, notified>>

\* calculate up to the dispatch of the tasks: ntime tasks, none started; with
\* no stack loaded self.sliced_msl.dims raises and calculate assigns nothing
calculate(n) ==
    /\ phase = "idle"
    /\ asl_df = None
    /\ IF sliced_msl = None
       THEN /\ phase' = "raised"
            /\ UNCHANGED <<n_jobs, pc, lows_per_time, completed, progress>>
       ELSE /\ phase' = "running"
            /\ n_jobs' = n
            /\ pc' = [t \in 1 .. Len(sliced_msl.time) |-> "pending"]
            /\ lows_per_time' = [t \in 1 .. Len(sliced_msl.time) |-> None]
            /\ completed' = <<>>
            /\ TqdmEnter(tqdm(Len(sliced_msl.time)))
    /\ UNCHANGED <<data, all_lows_dfs, asl_df, call, log, cli, retrievals>>

\* joblib hands the tasks out in the order of range(ntime), to a free worker
Dispatch(t) ==
    /\ phase = "running"
    /\ pc[t] = "pending"
    /\ \A u \in 1 .. t - 1 : pc[u] /= "pending"
    /\ Cardinality({u \in DOMAIN pc : pc[u] = "running"}) < n_jobs
    /\ pc' = [pc EXCEPT ![t] = "running"]
    /\ UNCHANGED <<data, all_lows_dfs, asl_df, phase, n_jobs, lows_per_time, completed, call,
                   log, cli, retrievals, progress>>

\* TaskReturn with get_lows writing the land-filled field back into the stack
TaskReturnInPlace(t) ==
    /\ phase = "running"
    /\ pc[t] = "running"
    /\ pc' = [pc EXCEPT ![t] = "done"]
    /\ lows_per_time' =
          [lows_per_time EXCEPT ![t] = DF(_get_lows_by_time(sliced_msl, "time", t, land_sea_mask))]
    /\ completed' = Append(completed, t)
    /\ sliced_msl' = [sliced_msl EXCEPT !.vals[t] = FillLand(isel(sliced_msl, t), land_sea_mask)]
    /\ BatchCompleted
    /\ UNCHANGED <<land_sea_mask, raw_msl_data, masked_msl_data, sliced_masked_msl,
                   all_lows_dfs, asl_df, phase, n_jobs, call, log, cli, retrievals>>

\* a task returns: its frame takes the task's place in the result list
TaskReturn(t) ==
    /\ phase = "running"
    /\ pc[t] = "running"
    /\ pc' = [pc EXCEPT ![t] = "done"]
    /\ lows_per_time' =
          [lows_per_time EXCEPT ![t] = DF(_get_lows_by_time(sliced_msl, "time", t, land_sea_mask))]
    /\ completed' = Append(completed, t)
    /\ BatchCompleted
    /\ UNCHANGED <<data, all_lows_dfs, asl_df, phase, n_jobs, call, log, cli, retrievals>>

\* a task raises: Parallel re-raises in the caller, the with block unwinds
\* through the finally of tqdm_joblib and calculate is left without any
\* assignment; its locals are gone
TaskRaise(t) ==
    /\ phase = "running"
    /\ pc[t] = "running"
    /\ phase' = "raised"
    /\ pc' = <<>>
    /\ lows_per_time' = <<>>
    /\ TqdmLeave
    /\ UNCHANGED <<data, all_lows_dfs, asl_df, n_jobs, completed, call, log, cli, retrievals>>

\* the frames of the tasks in the order of done
RECURSIVE ConcatIn(_, _)
ConcatIn(frames, done) ==
    IF done = <<>> THEN <<>> ELSE frames[Head(done)] \o ConcatIn(frames, Tail(done))

\* Collect with the frames taken in the order the tasks completed
CollectAsCompleted ==
    /\ phase = "running"
    /\ \A t \in DOMAIN pc : pc[t] = "done"
    /\ LET all == ConcatIn([t \in DOMAIN pc |-> lows_per_time[t].rows], completed)
       IN  /\ all_lows_dfs' = DF(all)
           /\ asl_df' = DF(define_minima_per_time_in_region(all, ASL_REGION))
    /\ phase' = "idle"
    /\ pc' = <<>>
    /\ lows_per_time' = <<>>
    /\ TqdmLeave
    /\ UNCHANGED <<data, n_jobs, completed, call, log, cli, retrievals>>

\* every task returned: concat, select, store
Collect ==
    /\ phase = "running"
    /\ \A t \in DOMAIN pc : pc[t] = "done"
    /\ LET all == Concat([t \in DOMAIN pc |-> lows_per_time[t].rows], Len(pc))
       IN  /\ all_lows_dfs' = DF(all)
           /\ asl_df' = DF(define_minima_per_time_in_region(all, ASL_REGION))
    /\ phase' = "idle"
    /\ pc' = <<>>
    /\ lows_per_time' = <<>>
    /\ TqdmLeave
    /\ UNCHANGED <<data, n_jobs, completed, call, log, cli, retrievals>>

Next ==
    \/ read_mask_data
    \/ read_msl_data
    \/ \E n \in 1 .. MaxJobs : calculate(n)
    \/ \E t \in DOMAIN pc : Dispatch(t)
    \/ \E t \in DOMAIN pc : TaskReturn(t)
    \/ \E t \in DOMAIN pc : TaskRaise(t)
    \/ Collect

Spec == Init /\ [][Next]_vars

\* ------------------------------------------- get_lows called on its own
InitLows ==
    /\ Constructed
    /\ NoMain
    /\ \/ \E p \in PartialFields(ProbeCells, MaxLowCells), m \in LowsMasks :
             arg = [da |-> LowsDa(p), mask |-> m]
       \/ \E p \in [WideCells -> 0 .. PBase] :
             arg = [da |-> WideDa(p), mask |-> WideSea]
       \/ arg = [da |-> NonFiniteDa, mask |-> WideSea]
    /\ ret = None

CallGetLows ==
    /\ ret = None
    /\ ret' = DF(get_lows(arg.da, arg.mask))
    /\ UNCHANGED <<data, all_lows_dfs, asl_df, run, arg, log, cli, retrievals, progress>>

SpecLows == InitLows /\ [][CallGetLows]_vars

\* ------------- define_minima_per_time_in_region called on its own
InitSel ==
    /\ Constructed
    /\ NoMain
    /\ \E n \in 0 .. MaxRows : \E df \in [1 .. n -> SelRows] :
          arg = [df |-> df, region |-> ASL_REGION]
    /\ ret = None

CallDefineMinima ==
    /\ ret = None
    /\ ret' = DF(define_minima_per_time_in_region(arg.df, arg.region))
    /\ UNCHANGED <<data, all_lows_dfs, asl_df, run, arg, log, cli, retrievals, progress>>

SpecSel == InitSel /\ [][CallDefineMinima]_vars

\* ------------------------------------------------------------------ main
\* One run of the command: the parsed arguments are in arg, an uncaught
\* exception ends the process with status 1, the return of main with 0.
InitMain ==
    /\ Constructed
    /\ main_pc = "construct"
    /\ exit_status = <<>>
    /\ csv = None
    /\ ret = None
    /\ \E o \in {Absent, Given("asli.csv")}, n \in 1 .. MaxJobs,
          files \in {<<>>, <<"monthly/era5_mean_sea_level_pressure_monthly_*.nc">>} :
          arg = [datadir |-> "./data", mask |-> "era5_lsm.nc", output |-> o,
                 numjobs |-> n, msl_files |-> files]

\* ASLICalculator(args.datadir, args.mask, args.msl_files[0])
MainConstruct ==
    /\ main_pc = "construct"
    /\ IF arg.msl_files = <<>>
       THEN main_pc' = "exit" /\ exit_status' = <<1>>
       ELSE main_pc' = "read_mask" /\ UNCHANGED exit_status
    /\ UNCHANGED <<data, all_lows_dfs, asl_df, run, call, log, csv, retrievals, progress>>

\* MainReadMask with a mask that cannot be opened passed over in silence
MainReadMaskExitsClean ==
    /\ main_pc = "read_mask"
    /\ \/ /\ \E m \in Masks : land_sea_mask' = m
          /\ main_pc' = "read_msl"
          /\ UNCHANGED exit_status
       \/ /\ main_pc' = "exit"
          /\ exit_status' = <<0>>
          /\ UNCHANGED land_sea_mask
    /\ UNCHANGED <<raw_msl_data, masked_msl_data, sliced_msl, sliced_masked_msl,
                   all_lows_dfs, asl_df, run, call, log, csv, retrievals, progress>>

\* a.read_mask_data(): the mask is loaded, or xr.open_dataset raises
MainReadMask ==
    /\ main_pc = "read_mask"
    /\ \/ /\ \E m \in Masks : land_sea_mask' = m
          /\ main_pc' = "read_msl"
          /\ UNCHANGED exit_status
       \/ /\ main_pc' = "exit"
          /\ exit_status' = <<1>>
          /\ UNCHANGED land_sea_mask
    /\ UNCHANGED <<raw_msl_data, masked_msl_data, sliced_msl, sliced_masked_msl,
                   all_lows_dfs, asl_df, run, call, log, csv, retrievals, progress>>

\* a.read_msl_data(): the stack is loaded, or xr.open_mfdataset raises; with
\* no mask it logs and returns
MainReadMsl ==
    /\ main_pc = "read_msl"
    /\ IF land_sea_mask = None
       THEN /\ log' = log \cup {MaskFirst}
            /\ main_pc' = "calculate"
            /\ UNCHANGED <<raw_msl_data, masked_msl_data, sliced_msl, sliced_masked_msl,
                           exit_status>>
       ELSE /\ \/ /\ \E raw \in RawStacks :
                       /\ raw_msl_data' = raw
                       /\ masked_msl_data' = Masked(raw, land_sea_mask)
                       /\ sliced_masked_msl' = SlicedMasked(Masked(raw, land_sea_mask))
                       /\ sliced_msl' = SlicedHPa(raw)
                  /\ main_pc' = "calculate"
                  /\ UNCHANGED exit_status
               \/ /\ main_pc' = "exit"
                  /\ exit_status' = <<1>>
                  /\ UNCHANGED <<raw_msl_data, masked_msl_data, sliced_msl, sliced_masked_msl>>
            /\ UNCHANGED log
    /\ UNCHANGED <<land_sea_mask, all_lows_dfs, asl_df, run, call, csv, retrievals, progress>>

\* what k completed batches leave behind in a closed progress bar
Notifications(k) == [i \in 1 .. 2 * k |-> IF i % 2 = 1 THEN "update" ELSE "__call__"]
ClosedBar(total, k) == [total |-> total, n |-> k * BatchSize, closed |-> TRUE]

\* a.calculate(args.numjobs) from its call to its return or its exception
MainCalculate ==
    /\ main_pc = "calculate"
    /\ IF sliced_msl = None
       THEN /\ main_pc' = "exit"
            /\ exit_status' = <<1>>
            /\ UNCHANGED <<all_lows_dfs, asl_df, progress>>
       ELSE /\ old_batch_callback' = <<batch_callback>>
            /\ UNCHANGED batch_callback
            /\ \/ LET ntime == Len(sliced_msl.time)
                      all == Concat([t \in 1 .. ntime |->
                                        _get_lows_by_time(sliced_msl, "time", t, land_sea_mask)],
                                    ntime)
                  IN  /\ all_lows_dfs' = DF(all)
                      /\ asl_df' = DF(define_minima_per_time_in_region(all, ASL_REGION))
                      /\ progress_bar' = ClosedBar(ntime, ntime)
                      /\ notified' = Notifications(ntime)
                      /\ main_pc' = "to_csv"
                      /\ UNCHANGED exit_status
               \/ \E k \in 0 .. Len(sliced_msl.time) - 1 :
                      /\ progress_bar' = ClosedBar(Len(sliced_msl.time), k)
                      /\ notified' = Notifications(k)
                      /\ main_pc' = "exit"
                      /\ exit_status' = <<1>>
                      /\ UNCHANGED <<all_lows_dfs, asl_df>>
    /\ UNCHANGED <<data, run, call, log, csv, retrievals>>

\* if args.output: a.to_csv(args.output), which writes or raises; then main
\* returns
MainToCsv ==
    /\ main_pc = "to_csv"
    /\ main_pc' = "exit"
    /\ IF arg.output = Absent
       THEN exit_status' = <<0>> /\ UNCHANGED csv
       ELSE \/ /\ csv' = [path |-> Path(arg.datadir, arg.output.given), table |-> asl_df]
               /\ exit_status' = <<0>>
            \/ /\ exit_status' = <<1>>
               /\ UNCHANGED csv
    /\ UNCHANGED <<data, all_lows_dfs, asl_df, run, call, log, retrievals, progress>>

NextMain ==
    \/ MainConstruct
    \/ MainReadMask
    \/ MainReadMsl
    \/ MainCalculate
    \/ MainToCsv

SpecMain == InitMain /\ [][NextMain]_vars

\* ------------------------------------- the functions of data.py on their own
\* One call per run: Init holds the call in arg, the action makes it, leaves
\* [value |-> what it returned] or [raised |-> the exception] in ret and adds
\* its calls of retrieve to retrievals.
InitData ==
    /\ Constructed
    /\ NoMain
    /\ ret = None
    /\ \/ \E a \in Areas \cup {None}, b \in Borders \cup {None} :
             arg = [op |-> "_get_request_area", area |-> a, border |-> b]
       \/ \E f \in Filenames, a \in Areas \cup {None}, b \in Borders \cup {None} :
             arg = [op |-> "get_land_sea_mask", data_dir |-> "./data", filename |-> f,
                    area |-> a, border |-> b]
       \/ \E vs \in VarLists, y1 \in Years, y2 \in Years,
             a \in Areas \cup {None}, b \in Borders \cup {None} :
             arg = [op |-> "get_era5_monthly", data_dir |-> "./data", vars |-> vs,
                    start_year |-> y1, end_year |-> y2, area |-> a, border |-> b]
       \/ \E e \in BOOLEAN, a \in AreaOptions, b \in BorderOptions,
             f \in {Absent} \cup {Given(x) : x \in Filenames},
             op \in {"_get_cli_lsm_args", "_cli_get_land_sea_mask"} :
             arg = [op |-> op,
                    argv |-> [datadir |-> Absent, e |-> e, area |-> a, border |-> b,
                              filename |-> f]]
       \/ \E e \in BOOLEAN, a \in AreaOptions, b \in BorderOptions,
             vs \in {Absent, Bare} \cup {Given(x) : x \in VarLists},
             y1 \in {Absent} \cup {Given(y) : y \in Years} :
             arg = [op |-> "_cli_get_era5_monthly",
                    this_year |-> DefaultStartYear + MaxYears,
                    argv |-> [datadir |-> Absent, e |-> e, area |-> a, border |-> b,
                              vars |-> vs, start |-> y1, end |-> Absent]]

CallGetRequestArea ==
    /\ arg.op = "_get_request_area"
    /\ ret = None
    /\ ret' = [value |-> _get_request_area(arg.area, arg.border)]
    /\ UNCHANGED <<data, all_lows_dfs, asl_df, run, arg, log, cli, retrievals, progress>>

CallGetLandSeaMask ==
    /\ arg.op = "get_land_sea_mask"
    /\ ret = None
    /\ retrievals' = retrievals
          \o get_land_sea_mask(arg.data_dir, arg.filename, arg.area, arg.border)
    /\ ret' = [value |-> None]
    /\ UNCHANGED <<data, all_lows_dfs, asl_df, run, arg, log, cli, progress>>

CallGetEra5Monthly ==
    /\ arg.op = "get_era5_monthly"
    /\ ret = None
    /\ retrievals' = retrievals
          \o get_era5_monthly(arg.data_dir, arg.vars, arg.start_year, arg.end_year,
                              arg.area, arg.border)
    /\ ret' = [value |-> None]
    /\ UNCHANGED <<data, all_lows_dfs, asl_df, run, arg, log, cli, progress>>

CallGetCliLsmArgs ==
    /\ arg.op = "_get_cli_lsm_args"
    /\ ret = None
    /\ ret' = [value |-> _get_cli_lsm_args(arg.argv)]
    /\ UNCHANGED <<data, all_lows_dfs, asl_df, run, arg, log, cli, retrievals, progress>>

CallCliGetLandSeaMask ==
    /\ arg.op = "_cli_get_land_sea_mask"
    /\ ret = None
    /\ retrievals' = retrievals \o _cli_get_land_sea_mask(arg.argv)
    /\ ret' = [value |-> None]
    /\ UNCHANGED <<data, all_lows_dfs, asl_df, run, arg, log, cli, progress>>

CallCliGetEra5Monthly ==
    /\ arg.op = "_cli_get_era5_monthly"
    /\ ret = None
    /\ LET r == _cli_get_era5_monthly(arg.argv, arg.this_year)
       IN  IF "raised" \in DOMAIN r
           THEN ret' = r /\ UNCHANGED retrievals
           ELSE ret' = [value |-> None] /\ retrievals' = retrievals \o r.retrieved
    /\ UNCHANGED <<data, all_lows_dfs, asl_df, run, arg, log, cli, progress>>

NextData ==
    \/ CallGetRequestArea
    \/ CallGetLandSeaMask
    \/ CallGetEra5Monthly
    \/ CallGetCliLsmArgs
    \/ CallCliGetLandSeaMask
    \/ CallCliGetEra5Monthly

SpecData == InitData /\ [][NextData]_vars

\* ================================================================ the claims
RowsAt(df, t) == SelectSeq(df, LAMBDA r : r.time = t)
TimesOf(df) == {df[i].time : i \in 1 .. Len(df)}
InBoxStrict(r, region) ==
    region.west < r.lon /\ r.lon < region.east /\ region.south < r.lat /\ r.lat < region.north

\* C1 (SpecSel): the selection returns exactly one row for each distinct time
\* of its input table, also for a time none of whose candidates is in the box.
C1_OneRowPerInputTime ==
    ret /= None => \A t \in TimesOf(arg.df) : Len(RowsAt(ret.rows, t)) = 1

\* the time steps of the loaded stack, their dates and their candidates
Steps == 1 .. Len(sliced_msl.time)
DateOf(t) == sliced_msl.time[t][1]
\* get_lows of every field a time step of a loaded stack can hold, under
\* every mask, worked out once
StepInputs ==
    {<<isel(SlicedHPa(RawStack(<<st>>, <<f>>)), 1), m>> :
        st \in Stamps, f \in StackFields, m \in Masks}
LowsMemo == {[da |-> x[1], mask |-> x[2], rows |-> get_lows(x[1], x[2])] : x \in StepInputs}
LowsOf(t) ==
    LET da == isel(sliced_msl, t)
    IN  IF \E e \in LowsMemo : e.da = da /\ e.mask = land_sea_mask
        THEN (CHOOSE e \in LowsMemo : e.da = da /\ e.mask = land_sea_mask).rows
        ELSE get_lows(da, land_sea_mask)
Frames == [t \in Steps |-> LowsOf(t)] \o <<>>
Missing(r) == r.lon = NaN /\ r.lat = NaN /\ r.ActCenPres = NaN /\ r.SectorPres = NaN

\* C2 (Spec): the table of calculate has exactly one row per time step of the
\* loaded stack; a time step without candidates is a row holding its time and
\* nothing else.
C2_OneRowPerTimeStep ==
    asl_df /= None =>
        /\ Len(asl_df.rows) = Len(sliced_msl.time)
        /\ \A t \in Steps :
              /\ Len(RowsAt(asl_df.rows, DateOf(t))) = 1
              /\ LowsOf(t) = <<>> => Missing(RowsAt(asl_df.rows, DateOf(t))[1])

\* C3 (SpecSel): for every time with a candidate strictly inside the box, the
\* one row selected for it is one of its candidates, lies inside the box and
\* is no deeper than any of its candidates inside the box; the candidates
\* outside the box, deeper or not, play no part.
C3_DeepestInBox ==
    ret /= None =>
        \A t \in TimesOf(arg.df) :
            (\E i \in 1 .. Len(arg.df) : arg.df[i].time = t /\ InBoxStrict(arg.df[i], arg.region))
            => /\ Len(RowsAt(ret.rows, t)) = 1
               /\ LET r == RowsAt(ret.rows, t)[1]
                  IN  /\ \E i \in 1 .. Len(arg.df) : arg.df[i] = r
                      /\ InBoxStrict(r, arg.region)
                      /\ \A i \in 1 .. Len(arg.df) :
                            arg.df[i].time = t /\ InBoxStrict(arg.df[i], arg.region)
                            => r.ActCenPres <= arg.df[i].ActCenPres

\* C3's case: two candidates of one time inside the box and a third outside
\* it that is deeper than the row selected.
C3_Witness ==
    /\ ret /= None
    /\ \E i, j, k \in 1 .. Len(arg.df) :
          /\ i /= j
          /\ arg.df[i].time = arg.df[j].time /\ arg.df[j].time = arg.df[k].time
          /\ InBoxStrict(arg.df[i], arg.region) /\ InBoxStrict(arg.df[j], arg.region)
          /\ ~InBoxStrict(arg.df[k], arg.region)
          /\ Len(RowsAt(ret.rows, arg.df[i].time)) = 1
          /\ arg.df[k].ActCenPres < RowsAt(ret.rows, arg.df[i].time)[1].ActCenPres

\* C4 (SpecSel): every selected row has west < lon < east and south < lat <
\* north; a candidate on an edge is never selected, and a time with a
\* candidate one step inside the west edge gets a row.
C4_StrictBox ==
    ret /= None =>
        /\ \A i \in 1 .. Len(ret.rows) :
              /\ arg.region.west < ret.rows[i].lon /\ ret.rows[i].lon < arg.region.east
              /\ arg.region.south < ret.rows[i].lat /\ ret.rows[i].lat < arg.region.north
        /\ \A i \in 1 .. Len(arg.df) :
              (/\ arg.df[i].lon = arg.region.west + 1
               /\ arg.region.south < arg.df[i].lat /\ arg.df[i].lat < arg.region.north)
              => Len(RowsAt(ret.rows, arg.df[i].time)) = 1

\* C4's case: a time with a candidate on the west edge that is the deeper one
\* and a candidate one step inside, which is the row selected.
C4_Witness ==
    /\ ret /= None
    /\ \E i, j \in 1 .. Len(arg.df), k \in 1 .. Len(ret.rows) :
          /\ arg.df[i].time = arg.df[j].time
          /\ arg.df[i].lon = arg.region.west
          /\ arg.df[j].lon = arg.region.west + 1
          /\ arg.df[i].ActCenPres < arg.df[j].ActCenPres
          /\ ret.rows[k] = arg.df[j]

\* the table a run with one worker returns: the frames of the time steps
\* taken in the order of the time axis
SequentialTable ==
    define_minima_per_time_in_region(Concat(Frames, Len(sliced_msl.time)), ASL_REGION)
FirstStepOf(d) == CHOOSE t \in Steps : DateOf(t) = d /\ \A u \in Steps : DateOf(u) = d => t <= u

\* C5 as claimed (Spec): whatever the workers and the order of completion, the
\* rows of the table follow the order of the time steps along the input time
\* axis, and the table is the one a single worker produces.
C5_InputTimeOrder ==
    asl_df /= None =>
        /\ \A i, j \in 1 .. Len(asl_df.rows) :
              i < j => FirstStepOf(asl_df.rows[i].time) < FirstStepOf(asl_df.rows[j].time)
        /\ asl_df.rows = SequentialTable

\* C5 as amended (Spec): whatever the workers and the order of completion, the
\* rows of the table are in ascending order of their time, and the table is
\* the one a single worker produces.
C5_AscendingTimeOrder ==
    asl_df /= None =>
        /\ \A i, j \in 1 .. Len(asl_df.rows) : i < j => asl_df.rows[i].time < asl_df.rows[j].time
        /\ asl_df.rows = SequentialTable

\* C5's case: two workers, the second time step completed before the first,
\* and both have a row in the table.
C5_Witness ==
    /\ asl_df /= None
    /\ n_jobs = 2
    /\ Len(completed) >= 2 /\ completed[1] = 2 /\ completed[2] = 1
    /\ Len(asl_df.rows) >= 2

\* C6 (SpecLows): no candidate of get_lows is at a land cell (mask >=
\* MASK_THRESHOLD), also when the least value of the field is on land.
C6_NoLowOnLand ==
    ret /= None =>
        \A i \in 1 .. Len(ret.rows) :
            MaskAt(arg.mask, <<ret.rows[i].lat, ret.rows[i].lon>>) < MASK_THRESHOLD

\* C6's case: the least value of the field is at a land cell, alone there, and
\* get_lows reports a candidate elsewhere.
C6_Witness ==
    /\ ret /= None
    /\ ret.rows /= <<>>
    /\ \E c \in Shape(arg.da) :
          /\ MaskAt(arg.mask, LabelOf(arg.da, c)) >= MASK_THRESHOLD
          /\ \A x \in Shape(arg.da) \ {c} : At(arg.da.vals, c) < At(arg.da.vals, x)

\* the frames of the time steps of date d, in the order of the time axis
RECURSIVE LowsOfDate(_, _, _)
LowsOfDate(frames, d, n) ==
    IF n = 0 THEN <<>>
    ELSE LowsOfDate(frames, d, n - 1) \o (IF DateOf(n) = d THEN frames[n] ELSE <<>>)

\* C8 as claimed (Spec): the candidates of a time step are those of its own
\* field and the mask, and so is its selected row: the row the table holds for
\* the time step is the selection among its own candidates, whatever the other
\* time steps hold.
C8_OwnFieldOnly ==
    /\ phase = "running" =>
          \A t \in Steps : pc[t] = "done" => lows_per_time[t].rows = LowsOf(t)
    /\ asl_df /= None =>
          LET frames == Frames
          IN  \A t \in Steps :
                  RowsAt(asl_df.rows, DateOf(t))
                      = define_minima_per_time_in_region(frames[t], ASL_REGION)

\* C8 as amended (Spec): the candidates of a time step are those of its own
\* field and the mask, and the row the table holds for a date is the selection
\* among the candidates of the time steps of that date, whatever the time
\* steps of other dates hold.
C8_OwnDateOnly ==
    /\ phase = "running" =>
          \A t \in Steps : pc[t] = "done" => lows_per_time[t].rows = LowsOf(t)
    /\ asl_df /= None =>
          LET frames == Frames
          IN  \A t \in Steps :
                  RowsAt(asl_df.rows, DateOf(t))
                      = define_minima_per_time_in_region(
                            LowsOfDate(frames, DateOf(t), Len(sliced_msl.time)), ASL_REGION)

\* C8's case: two time steps of different dates and different fields, each
\* with its row in the table.
C8_Witness ==
    /\ asl_df /= None
    /\ \E t, u \in Steps :
          /\ DateOf(t) /= DateOf(u)
          /\ sliced_msl.vals[t] /= sliced_msl.vals[u]
          /\ RowsAt(asl_df.rows, DateOf(t)) /= <<>>
          /\ RowsAt(asl_df.rows, DateOf(u)) /= <<>>
          /\ RowsAt(asl_df.rows, DateOf(t))[1].lon /= RowsAt(asl_df.rows, DateOf(u))[1].lon

\* C9 (Spec): no step of a running calculate, in any interleaving of the
\* workers, changes the land-sea mask or the stored pressure stack.
C9_MaskAndStackKept ==
    [][phase = "running" => land_sea_mask' = land_sea_mask /\ sliced_msl' = sliced_msl]_vars

\* C9's case: a calculate that ran get_lows twice over a mask with land in the
\* box, the later time step first, and stored its table.
C9_Witness ==
    /\ asl_df /= None
    /\ Len(completed) >= 2 /\ completed[1] > completed[2]
    /\ \E c \in Shape(sliced_msl) : MaskAt(land_sea_mask, LabelOf(sliced_msl, c)) >= MASK_THRESHOLD
    /\ \E c \in Shape(sliced_msl) : MaskAt(land_sea_mask, LabelOf(sliced_msl, c)) < MASK_THRESHOLD

\* C10 (Spec): a time step whose computation fails does not abort the run:
\* calculate never ends by raising.
C10_FailureDoesNotAbort == phase /= "raised"

\* C11 (Spec): loading the pressure data before the mask aborts the run:
\* whenever read_msl_data has found no mask loaded, the call has not returned
\* normally to a calculator that goes on.
C11_MissingMaskAborts == MaskFirst \in log => phase = "raised"

\* a region whose west is not below its east or whose south is not below its north
Malformed(r) == r.west >= r.east \/ r.south >= r.north

\* C12 (SpecData): a malformed region is rejected: no call of
\* _get_request_area with one ends otherwise than by raising.
C12_MalformedRegionRejected ==
    (arg.op = "_get_request_area" /\ ret /= None /\ arg.area /= None /\ Malformed(arg.area))
        => "raised" \in DOMAIN ret

\* the border in degrees, none being no border
Deg(border) == IF border = None THEN 0 ELSE border.deg

\* C14 (SpecData): get_land_sea_mask and get_era5_monthly call retrieve
\* exactly once, for the monthly-means dataset, with the area listed north +
\* border, west - border, south - border, east + border, no area entry when
\* the area is None, and the output path data_dir joined with the file name.
C14_OneRetrieve ==
    (arg.op \in {"get_land_sea_mask", "get_era5_monthly"} /\ ret /= None) =>
        /\ Len(retrievals) = 1
        /\ retrievals[1].name = "reanalysis-era5-single-levels-monthly-means"
        /\ Len(retrievals[1].target) = 2
        /\ retrievals[1].target[1] = arg.data_dir
        /\ arg.op = "get_land_sea_mask" => retrievals[1].target[2] = arg.filename
        /\ IF arg.area = None
           THEN "area" \notin DOMAIN retrievals[1].request
           ELSE /\ "area" \in DOMAIN retrievals[1].request
                /\ retrievals[1].request.area =
                      <<arg.area.north + Deg(arg.border), arg.area.west - Deg(arg.border),
                        arg.area.south - Deg(arg.border), arg.area.east + Deg(arg.border)>>

\* C14's case: the mask downloaded for the ASL region with a border of one
\* degree, requested as 59 S, 169 E, 81 S, 299 E.
C14_Witness ==
    /\ arg.op = "get_land_sea_mask"
    /\ ret /= None
    /\ arg.area = ASL_REGION
    /\ arg.border = [deg |-> 1]
    /\ retrievals[1].request.area = <<-59, 169, -81, 299>>

\* the years of the inputs as text
YearText(y) ==
    CASE y = 2006 -> "2006" [] y = 2007 -> "2007" [] y = 2008 -> "2008" [] y = 2009 -> "2009"

\* the CDS names of the known entries of vs, in the order uas, vas, tas, msl
Wanted(vs) ==
    SelectSeq(<<"uas", "vas", "tas", "msl">>, LAMBDA v : \E i \in 1 .. Len(vs) : vs[i] = v)

RECURSIVE Underscored(_)
Underscored(names) ==
    IF names = <<>> THEN ""
    ELSE IF Len(names) = 1 THEN names[1]
    ELSE names[1] \o "_" \o Underscored(Tail(names))

\* C15 (SpecData): for start_year <= end_year get_era5_monthly requests the
\* years start_year .. end_year ascending as text, the twelve months, the CDS
\* names of the known entries of vars in the order uas, vas, tas, msl whatever
\* their order in vars, into ERA5/monthly/era5_<names>_monthly_<start>-<end>.nc.
C15_Era5Request ==
    (arg.op = "get_era5_monthly" /\ ret /= None /\ arg.start_year <= arg.end_year) =>
        LET r == retrievals[1].request
            names == CdsNames(Wanted(arg.vars))
        IN  /\ Len(r.year) = arg.end_year - arg.start_year + 1
            /\ \A i \in 1 .. Len(r.year) : r.year[i] = YearText(arg.start_year + i - 1)
            /\ r.month = <<"01", "02", "03", "04", "05", "06",
                           "07", "08", "09", "10", "11", "12">>
            /\ r.variable = names
            /\ retrievals[1].target[2] =
                  "ERA5/monthly/era5_" \o Underscored(names) \o "_monthly_"
                      \o YearText(arg.start_year) \o "-" \o YearText(arg.end_year) \o ".nc"

\* C15's case: msl listed before uas, two years: uas is requested first.
C15_Witness ==
    /\ arg.op = "get_era5_monthly"
    /\ ret /= None
    /\ arg.vars = <<"msl", "uas">>
    /\ arg.start_year = 2006 /\ arg.end_year = 2007
    /\ retrievals[1].request.year = <<"2006", "2007">>
    /\ retrievals[1].request.variable = <<"10m_u_component_of_wind", "mean_sea_level_pressure">>
    /\ retrievals[1].target[2] =
          "ERA5/monthly/era5_10m_u_component_of_wind_mean_sea_level_pressure_monthly_2006-2007.nc"

\* C16 (SpecData): _get_request_area returns None for no area, the area itself
\* for no border, and otherwise the region with north and east raised and
\* south and west lowered by the border, the same bounds for a border of 0.
C16_RequestArea ==
    (arg.op = "_get_request_area" /\ ret /= None) =>
        /\ "value" \in DOMAIN ret
        /\ arg.area = None => ret.value = None
        /\ (arg.area /= None /\ arg.border = None) => ret.value = arg.area
        /\ (arg.area /= None /\ arg.border /= None) =>
              /\ DOMAIN ret.value = {"north", "south", "east", "west"}
              /\ ret.value.north = arg.area.north + arg.border.deg
              /\ ret.value.east = arg.area.east + arg.border.deg
              /\ ret.value.south = arg.area.south - arg.border.deg
              /\ ret.value.west = arg.area.west - arg.border.deg
              /\ arg.border.deg = 0 => ret.value = arg.area

\* C16's case: the ASL region with a border of one degree.
C16_Witness ==
    /\ arg.op = "_get_request_area"
    /\ ret /= None
    /\ arg.area = ASL_REGION
    /\ arg.border = [deg |-> 1]
    /\ ret.value = [north |-> -59, south |-> -81, east |-> 299, west |-> 169]

\* C17 (SpecData): in the arguments of the mask download -e overrides --area
\* and --border: with -e area_dict and border are None whatever --area says;
\* without it area_dict is north, west, south, east from the four numbers of
\* --area in that order and border is what --border gave.
C17_EarthOverridesArea ==
    (arg.op = "_get_cli_lsm_args" /\ ret /= None) =>
        IF arg.argv.e
        THEN ret.value.area_dict = None /\ ret.value.border = None
        ELSE /\ LET a == IF arg.argv.area = Absent
                         THEN <<North, West, South, East>>
                         ELSE arg.argv.area.given
                IN  ret.value.area_dict =
                        [north |-> a[1], west |-> a[2], south |-> a[3], east |-> a[4]]
             /\ arg.argv.border \notin {Absent, Bare} =>
                    ret.value.border = arg.argv.border.given

\* C17's case: -e together with --area 1 2 3 4 and --border 1.
C17_Witness ==
    /\ arg.op = "_get_cli_lsm_args"
    /\ ret /= None
    /\ arg.argv.e
    /\ arg.argv.area = Given(<<1, 2, 3, 4>>)
    /\ arg.argv.border = Given([deg |-> 1])
    /\ ret.value.area_dict = None

\* C18 (SpecData): the ERA5 download command reaches get_era5_monthly for
\* every combination of its options, asking for the whole earth with -e and
\* otherwise for the area of --area (default the ASL region) widened by
\* --border on every side.
C18_Era5CliHonoursOptions ==
    (arg.op = "_cli_get_era5_monthly" /\ ret /= None /\ arg.argv.vars /= Bare) =>
        /\ "raised" \notin DOMAIN ret
        /\ Len(retrievals) = 1
        /\ IF arg.argv.e
           THEN "area" \notin DOMAIN retrievals[1].request
           ELSE LET a == IF arg.argv.area = Absent
                         THEN <<North, West, South, East>>
                         ELSE arg.argv.area.given
                    b == IF arg.argv.border \in {Absent, Bare}
                         THEN 0 ELSE arg.argv.border.given.deg
                IN  retrievals[1].request.area = <<a[1] + b, a[2] - b, a[3] - b, a[4] + b>>

\* C13 (SpecMain): main ends with a non-zero status whenever the mask or the
\* pressure files were not loaded, with status 0 when the CSV was written, and
\* never writes a CSV when a load failed.
C13_ExitStatus ==
    /\ main_pc = "exit" =>
          /\ (land_sea_mask = None \/ raw_msl_data = None) =>
                (exit_status /= <<>> /\ exit_status /= <<0>>)
          /\ csv /= None => exit_status = <<0>>
    /\ csv /= None => (land_sea_mask /= None /\ raw_msl_data /= None)

\* C13's case: a run whose mask was loaded and whose pressure files were not.
C13_Witness ==
    /\ main_pc = "exit"
    /\ arg.output /= Absent
    /\ land_sea_mask /= None
    /\ raw_msl_data = None
    /\ exit_status = <<1>>
    /\ csv = None

\* C19 (SpecLows): every candidate of get_lows has ActCenPres <= SectorPres,
\* the mean of its own field over the sector, and a RelCenPres that is their
\* difference and is never positive.
C19_NotAboveSectorMean ==
    ret /= None =>
        \A i \in 1 .. Len(ret.rows) :
            LET r == ret.rows[i]
            IN  /\ r.SectorPres = asl_sector_mean(arg.da, arg.mask, ASL_REGION)
                /\ IntLe(r.ActCenPres, r.SectorPres)
                /\ r.RelCenPres = IntMinus(r.ActCenPres, r.SectorPres)
                /\ r.RelCenPres.den > 0
                /\ r.RelCenPres.num <= 0

\* C19's case: a candidate is reported while another cell, the least of its
\* own neighbourhood but above the sector mean, is not.
C19_Witness ==
    /\ ret /= None
    /\ ret.rows /= <<>>
    /\ LET filled == FillLand(arg.da, arg.mask)
           mean == asl_sector_mean(arg.da, arg.mask, ASL_REGION)
       IN  \E c \in Shape(arg.da) :
              /\ IntGt(At(filled, c), mean)
              /\ \A x \in Shape(arg.da) : Near(x, c, MinDistance) => At(filled, c) <= At(filled, x)
              /\ \A i \in 1 .. Len(ret.rows) :
                    <<ret.rows[i].lat, ret.rows[i].lon>> /= LabelOf(arg.da, c)

\* the cells of a field that are the least of their own neighbourhood, land
\* filled in, and below the sector mean
Qualifying(da, mask) ==
    LET filled == FillLand(da, mask)
        mean == asl_sector_mean(da, mask, ASL_REGION)
    IN  {c \in Shape(da) :
            /\ mean.den > 0
            /\ At(filled, c) * mean.den < mean.num
            /\ \A x \in Shape(da) : Near(x, c, MinDistance) => At(filled, c) <= At(filled, x)}

\* the cell a candidate row is at
CellOf(da, row) == CHOOSE c \in Shape(da) : LabelOf(da, c) = <<row.lat, row.lon>>

\* C20 as claimed (SpecLows): get_lows reports at most 3 candidates, and when
\* more than 3 cells qualify it reports 3 and no qualifying cell left out is
\* deeper than one reported.
C20_ThreeLowest ==
    ret /= None =>
        LET filled == FillLand(arg.da, arg.mask)
            Q == Qualifying(arg.da, arg.mask)
            reported == {CellOf(arg.da, ret.rows[i]) : i \in 1 .. Len(ret.rows)}
        IN  /\ Len(ret.rows) <= NumPeaks
            /\ Cardinality(Q) > NumPeaks =>
                  /\ Cardinality(reported) = NumPeaks
                  /\ \A q \in Q \ reported, r \in reported : At(filled, r) <= At(filled, q)

\* C20 (SpecLows): get_lows reports at most 3 candidates, all of them
\* qualifying cells, deepest first; a qualifying cell left out has a reported
\* cell no shallower fewer than MinDistance cells away, or 3 cells no shallower
\* are reported.
C20_AtMostThreeDeepestFirst ==
    ret /= None =>
        LET filled == FillLand(arg.da, arg.mask)
            Q == Qualifying(arg.da, arg.mask)
            cell == [i \in 1 .. Len(ret.rows) |-> CellOf(arg.da, ret.rows[i])]
            reported == {cell[i] : i \in 1 .. Len(ret.rows)}
        IN  /\ Len(ret.rows) <= NumPeaks
            /\ \A i \in 1 .. Len(ret.rows) :
                  /\ cell[i] \in Q
                  /\ ret.rows[i].ActCenPres = At(filled, cell[i])
            /\ \A i, j \in 1 .. Len(ret.rows) :
                  i < j => cell[i] /= cell[j] /\ At(filled, cell[i]) <= At(filled, cell[j])
            /\ \A q \in Q \ reported :
                  \/ \E r \in reported :
                        Cheb(r, q) < MinDistance /\ At(filled, r) <= At(filled, q)
                  \/ /\ Len(ret.rows) = NumPeaks
                     /\ \A r \in reported : At(filled, r) <= At(filled, q)

\* C20's case: more than 3 cells qualify, 3 are reported, and a shallower
\* qualifying cell far from all of them is left out.
C20_Witness ==
    /\ ret /= None
    /\ Len(ret.rows) = NumPeaks
    /\ LET filled == FillLand(arg.da, arg.mask)
           Q == Qualifying(arg.da, arg.mask)
           reported == {CellOf(arg.da, ret.rows[i]) : i \in 1 .. Len(ret.rows)}
       IN  /\ Cardinality(Q) > NumPeaks
           /\ \E q \in Q \ reported :
                 \A r \in reported : Cheb(r, q) >= MinDistance /\ At(filled, r) < At(filled, q)

\* the cells of the rows of a table of candidates of the field da
CellsOf(da, rows) == [i \in 1 .. Len(rows) |-> CellOf(da, rows[i])]

\* every candidate is the least of the land-filled field within MinDistance
\* rows and columns, and the deepest qualifying cell is reported wherever it is
LocalMinimaEdgesKept(da, mask, rows) ==
    LET filled == FillLand(da, mask)
        Q == Qualifying(da, mask)
        cell == CellsOf(da, rows)
    IN  /\ \A i \in 1 .. Len(rows) : \A x \in Shape(da) :
              Near(x, cell[i], MinDistance) => At(filled, cell[i]) <= At(filled, x)
        /\ Q /= {} =>
              /\ rows /= <<>>
              /\ \A q \in Q : At(filled, cell[1]) <= At(filled, q)

\* C21 as claimed (SpecLows): candidates are local minima within MinDistance
\* cells, edge cells are kept, and two candidates are more than MinDistance
\* cells apart.
C21_MoreThanFiveApart ==
    ret /= None =>
        /\ LocalMinimaEdgesKept(arg.da, arg.mask, ret.rows)
        /\ LET cell == CellsOf(arg.da, ret.rows)
           IN  \A i, j \in 1 .. Len(ret.rows) : i /= j => Cheb(cell[i], cell[j]) > MinDistance

\* C21 (SpecLows): candidates are local minima within MinDistance cells, edge
\* cells are kept, and two candidates are at least MinDistance cells apart,
\* exactly MinDistance only when their pressures are equal.
C21_AtLeastFiveApart ==
    ret /= None =>
        /\ LocalMinimaEdgesKept(arg.da, arg.mask, ret.rows)
        /\ LET cell == CellsOf(arg.da, ret.rows)
           IN  \A i, j \in 1 .. Len(ret.rows) :
                  i /= j =>
                     /\ Cheb(cell[i], cell[j]) >= MinDistance
                     /\ Cheb(cell[i], cell[j]) = MinDistance =>
                           ret.rows[i].ActCenPres = ret.rows[j].ActCenPres

\* C21's case: two candidates exactly MinDistance columns apart, one of them
\* in the first column of the grid.
C21_Witness ==
    /\ ret /= None
    /\ LET cell == CellsOf(arg.da, ret.rows)
       IN  \E i, j \in 1 .. Len(ret.rows) :
              /\ cell[i][2] = 1
              /\ Cheb(cell[i], cell[j]) = MinDistance

\* the cells of da that are open sea and lie in the ASL box, edges included
BoxOcean(da, mask) ==
    {c \in Shape(da) :
        /\ MaskAt(mask, LabelOf(da, c)) < MASK_THRESHOLD
        /\ ASL_REGION.south <= da.lats[c[1]] /\ da.lats[c[1]] <= ASL_REGION.north
        /\ ASL_REGION.west <= da.lons[c[2]] /\ da.lons[c[2]] <= ASL_REGION.east}

\* two means are the same number, or both the mean of nothing
SameMean(a, b) == a.num * b.den = b.num * a.den /\ (a.den = 0 <=> b.den = 0)

\* da with the value v at cell c
WithValue(da, c, v) == [da EXCEPT !.vals[c[1]][c[2]] = v]

\* C22 (SpecLows): SectorPres is the mean of the field over the ocean cells of
\* the ASL box; another value (the lowest, or one above every pressure of the
\* field) at a land cell or at a cell outside the box leaves it as it is, and
\* all the candidates carry it.
C22_SectorMeanOverBoxOcean ==
    ret /= None =>
        LET kept == BoxOcean(arg.da, arg.mask)
            mean == [num |-> SumOver(kept, arg.da.vals), den |-> Cardinality(kept)]
        IN  /\ \A i \in 1 .. Len(ret.rows) : SameMean(ret.rows[i].SectorPres, mean)
            /\ \A c \in Shape(arg.da) \ kept : \A v \in {0, MaxPres + 1} :
                  SameMean(asl_sector_mean(WithValue(arg.da, c, v), arg.mask, ASL_REGION), mean)

\* C22's case: two candidates of a field that has a land cell in the box whose
\* value is not the one of the sea around it.
C22_Witness ==
    /\ ret /= None
    /\ Len(ret.rows) >= 2
    /\ \E c \in Shape(arg.da) :
          /\ MaskAt(arg.mask, LabelOf(arg.da, c)) >= MASK_THRESHOLD
          /\ ASL_REGION.west <= arg.da.lons[c[2]] /\ arg.da.lons[c[2]] <= ASL_REGION.east
          /\ \E x \in BoxOcean(arg.da, arg.mask) : At(arg.da.vals, x) /= At(arg.da.vals, c)

\* the row r holds the pressure of the field of a time step of its date at
\* its own cell, the sector mean of that field, and their difference
OwnPressure(r) ==
    /\ r.RelCenPres = IntMinus(r.ActCenPres, r.SectorPres)
    /\ \E t \in Steps :
          LET da == isel(sliced_msl, t)
          IN  /\ DateOf(t) = r.time
              /\ r.ActCenPres = At(da.vals, CellOf(da, r))
              /\ SameMean(r.SectorPres, asl_sector_mean(da, land_sea_mask, ASL_REGION))

\* C23 (Spec): every candidate and every selected row has RelCenPres =
\* ActCenPres - SectorPres with ActCenPres the pressure of the field at the
\* row's cell, and every selected row is one of the candidates as it stands.
C23_RelativeCentralPressure ==
    asl_df /= None =>
        /\ \A i \in 1 .. Len(all_lows_dfs.rows) : OwnPressure(all_lows_dfs.rows[i])
        /\ \A i \in 1 .. Len(asl_df.rows) :
              /\ OwnPressure(asl_df.rows[i])
              /\ \E j \in 1 .. Len(all_lows_dfs.rows) : all_lows_dfs.rows[j] = asl_df.rows[i]

\* C23's case: a table with a selected row below its sector mean, taken from
\* more candidates than were selected.
C23_Witness ==
    /\ asl_df /= None
    /\ Len(all_lows_dfs.rows) > Len(asl_df.rows)
    /\ \E i \in 1 .. Len(asl_df.rows) : asl_df.rows[i].RelCenPres.num < 0

\* C24 (SpecLows): with no ocean cell in the ASL box the peak threshold is the
\* mean of the inverted field, so an ocean cell outside the box that is the
\* single least cell of the land-filled field, below the mean of that field,
\* is a candidate.
C24_FallbackToFieldMean ==
    (ret /= None /\ BoxOcean(arg.da, arg.mask) = {} /\ Finite(arg.da) /= {}) =>
        LET filled == FillLand(arg.da, arg.mask)
            total == SumOver(Shape(arg.da), filled)
            count == Cardinality(Shape(arg.da))
        IN  \A c \in Shape(arg.da) :
               (/\ MaskAt(arg.mask, LabelOf(arg.da, c)) < MASK_THRESHOLD
                /\ At(filled, c) * count < total
                /\ \A x \in Shape(arg.da) \ {c} : At(filled, c) < At(filled, x))
               => \E i \in 1 .. Len(ret.rows) :
                     <<ret.rows[i].lat, ret.rows[i].lon>> = LabelOf(arg.da, c)

\* every cell of da is land
EntirelyLand(da, mask) ==
    \A c \in Shape(da) : MaskAt(mask, LabelOf(da, c)) >= MASK_THRESHOLD

DeepestInBox(df, region, t) ==
    {i \in 1 .. Len(df) :
        /\ df[i].time = t
        /\ InBoxStrict(df[i], region)
        /\ \A j \in 1 .. Len(df) :
              (df[j].time = t /\ InBoxStrict(df[j], region))
              => df[i].ActCenPres <= df[j].ActCenPres}

\* C26 (SpecSel): for a time whose candidates in the box share the least
\* ActCenPres or not, the selection returns the one of the deepest that comes
\* first in the input table.
C26_FirstOfTheDeepest ==
    ret /= None =>
        \A t \in TimesOf(arg.df) :
            LET D == DeepestInBox(arg.df, arg.region, t)
            IN  D /= {} =>
                   RowsAt(ret.rows, t) = <<arg.df[CHOOSE i \in D : \A j \in D : i <= j]>>

\* C26's case: two candidates of one time in the box with the same least
\* ActCenPres, the first of them east of the second, and the first selected.
C26_Witness ==
    /\ ret /= None
    /\ \E t \in TimesOf(arg.df) :
          \E i, j \in DeepestInBox(arg.df, arg.region, t) :
              /\ i < j
              /\ arg.df[i].lon > arg.df[j].lon
              /\ RowsAt(ret.rows, t) = <<arg.df[i]>>

\* the inverted land-filled field of get_lows
Inverted(da, mask) ==
    LET filled == FillLand(da, mask)
    IN  Array([i \in 1 .. Len(da.lats) |-> [j \in 1 .. Len(da.lons) |-> -filled[i][j]]])

\* the cells that qualify as peaks, and the cells reported, when the peak
\* search of get_lows runs with the whole number s in place of SectorPres
QualifyingUnder(da, img, s) ==
    PeakMask(Shape(da), img, MinDistance, Neg([num |-> s, den |-> 1]))
ReportedUnder(da, img, s) ==
    LET yx == peak_local_max(Shape(da), img, MinDistance, NumPeaks, FALSE,
                             Neg([num |-> s, den |-> 1]))
    IN  {yx[i] : i \in 1 .. Len(yx)}

\* C27 (SpecLows): with the field held fixed, a higher threshold in place of
\* SectorPres keeps every qualifying cell and every reported cell of a lower
\* one, so neither number ever falls as the threshold rises.
C27_ThresholdMonotone ==
    (ret /= None /\ Finite(arg.da) /= {}) =>
        LET img == Inverted(arg.da, arg.mask)
            \* entry k is the outcome under the threshold k - 1
            qualifying == [k \in 1 .. MaxPres + 2 |-> QualifyingUnder(arg.da, img, k - 1)] \o <<>>
            reported == [k \in 1 .. MaxPres + 2 |-> ReportedUnder(arg.da, img, k - 1)] \o <<>>
        IN  \A k \in 1 .. MaxPres + 1 :
               /\ qualifying[k] \subseteq qualifying[k + 1]
               /\ reported[k] \subseteq reported[k + 1]

\* C27's case: a field with cells that qualify under one threshold, more
\* under the next, and more of them than can be reported.
C27_Witness ==
    /\ ret /= None
    /\ Finite(arg.da) /= {}
    /\ LET img == Inverted(arg.da, arg.mask)
       IN  \E s \in 0 .. MaxPres :
              /\ QualifyingUnder(arg.da, img, s) /= {}
              /\ QualifyingUnder(arg.da, img, s) /= QualifyingUnder(arg.da, img, s + 1)
              /\ Cardinality(QualifyingUnder(arg.da, img, s + 1)) > NumPeaks

\* the time step t has a candidate strictly inside the ASL box
HasLowInBox(frames, t) ==
    \E i \in 1 .. Len(frames[t]) : InBoxStrict(frames[t][i], ASL_REGION)

\* C28 (Spec): candidates are grouped by the date of their time step: a row of
\* the table is a candidate of a time step of its own date, two time steps of
\* one date get one row between them, and two time steps of different dates
\* with a candidate in the box get a row each.
C28_GroupedByDate ==
    asl_df /= None =>
        LET frames == Frames
        IN  /\ \A i \in 1 .. Len(asl_df.rows) :
                  \E t \in Steps :
                      /\ DateOf(t) = asl_df.rows[i].time
                      /\ \E k \in 1 .. Len(frames[t]) : frames[t][k] = asl_df.rows[i]
            /\ \A t, u \in Steps :
                  /\ (t /= u /\ DateOf(t) = DateOf(u)) =>
                        /\ Len(RowsAt(asl_df.rows, DateOf(t))) <= 1
                        /\ (HasLowInBox(frames, t) \/ HasLowInBox(frames, u)) =>
                              Len(RowsAt(asl_df.rows, DateOf(t))) = 1
                  /\ (DateOf(t) /= DateOf(u) /\ HasLowInBox(frames, t) /\ HasLowInBox(frames, u)) =>
                        /\ Len(RowsAt(asl_df.rows, DateOf(t))) = 1
                        /\ Len(RowsAt(asl_df.rows, DateOf(u))) = 1

\* C28's case: two time steps of one date, each with its own candidate in the
\* box, and one row for the date.
C28_Witness ==
    /\ asl_df /= None
    /\ \E t, u \in Steps :
          /\ t /= u
          /\ DateOf(t) = DateOf(u)
          /\ \E i, j \in 1 .. Len(all_lows_dfs.rows) :
                /\ all_lows_dfs.rows[i].lon /= all_lows_dfs.rows[j].lon
                /\ InBoxStrict(all_lows_dfs.rows[i], ASL_REGION)
                /\ InBoxStrict(all_lows_dfs.rows[j], ASL_REGION)
          /\ Len(RowsAt(asl_df.rows, DateOf(t))) = 1

\* the fields read_msl_data and calculate assign
Loaded == <<raw_msl_data, masked_msl_data, sliced_msl, sliced_masked_msl, all_lows_dfs, asl_df>>

\* C29 (Spec): a read_msl_data that finds no mask changes no field of the
\* calculator; the stack is set only by a step that finds the mask loaded and
\* leaves it alone, and the table only by a calculate that ran on a loaded
\* stack.
C29_NothingWithoutMask ==
    /\ [](sliced_msl /= None => land_sea_mask /= None /\ raw_msl_data /= None)
    /\ [](asl_df /= None => sliced_msl /= None)
    /\ [][/\ (land_sea_mask = None /\ MaskFirst \notin log /\ MaskFirst \in log') =>
                (land_sea_mask' = None /\ Loaded' = Loaded)
          /\ (sliced_msl = None /\ sliced_msl' /= None) =>
                (land_sea_mask /= None /\ land_sea_mask' = land_sea_mask)
          /\ (asl_df = None /\ asl_df' /= None) =>
                (phase = "running" /\ sliced_msl /= None /\ sliced_msl' = sliced_msl)]_vars

\* C29's case: read_msl_data was called before the mask was read, and the
\* calls made in the right order afterwards gave a table.
C29_Witness ==
    /\ MaskFirst \in log
    /\ land_sea_mask /= None
    /\ sliced_msl /= None
    /\ asl_df /= None

\* C30 (Spec): outside the with block of calculate the global joblib callback
\* class is the one found on entry and the progress bar, if there is one, is
\* closed, however the block was left; inside it the patched class is the
\* global one, and every completed batch has advanced the bar by its size and
\* then called the original callback.
C30_CallbackRestored ==
    /\ phase /= "running" =>
          /\ batch_callback = "BatchCompletionCallBack"
          /\ old_batch_callback /= <<>> =>
                /\ batch_callback = old_batch_callback[1]
                /\ progress_bar.closed
    /\ phase = "running" =>
          /\ batch_callback = "TqdmBatchCompletionCallback"
          /\ old_batch_callback = <<"BatchCompletionCallBack">>
          /\ ~progress_bar.closed
          /\ progress_bar.total = Len(sliced_msl.time)
    /\ old_batch_callback /= <<>> =>
          /\ progress_bar.n = BatchSize * Len(completed)
          /\ Len(notified) = 2 * Len(completed)
          /\ \A k \in 1 .. Len(completed) :
                notified[2 * k - 1] = "update" /\ notified[2 * k] = "__call__"

\* C30's case: a task completed and advanced the bar, then another raised and
\* the block was left by the exception.
C30_Witness ==
    /\ phase = "raised"
    /\ old_batch_callback /= <<>>
    /\ progress_bar.n >= BatchSize
    /\ progress_bar.n < progress_bar.total
    /\ progress_bar.closed
    /\ batch_callback = "BatchCompletionCallBack"

====
